---- MODULE Spec2Model ----
(***************************************************************************)
(* Integration-test ordering engine: the dependency graph                  *)
(* (src/src/models/dependency_graph.py), the four ordering strategies      *)
(* (src/src/strategy/test_order/*.py) and the strategy selector            *)
(* (src/src/strategy/test_order_selector.py).                              *)
(*                                                                         *)
(* Components are identified by their id (a uuid4 in the code); ids are    *)
(* named 1, 2, ... in the order in which the Component objects are         *)
(* created.  Python dicts and networkx graphs iterate in insertion order,  *)
(* so every dict / node list / adjacency list is a sequence here.          *)
(* Strengths and scores are floats in the code; here a strength is an      *)
(* integer number of halves (2 is 1.0) and a score an integer number of    *)
(* tenths (9 is 0.9).                                                      *)
(***************************************************************************)
EXTENDS Integers, Sequences, FiniteSets, TLC

\* ---------------------------------------------------------------- bounds
MaxComponents == 3
MaxRelationships == 2
MaxChain == 4
MaxCycle == 4
MaxEdges == 3

ComponentIds == 1..MaxComponents

\* the (name, complexity_score, importance_score) a client gives a Component
ComponentKinds ==
    { [name |-> "A", complexity_score |-> 1, importance_score |-> 0],
      [name |-> "B", complexity_score |-> 9, importance_score |-> 0] }

\* the (relationship_type, strength) a client gives a Relationship
RelationshipKinds ==
    { [relationship_type |-> "association", strength |-> 2],
      [relationship_type |-> "inheritance", strength |-> 2],
      [relationship_type |-> "association", strength |-> 0] }

\* ------------------------------------------------------- sequence helpers
Range(s) == { s[i] : i \in DOMAIN s }

Reverse(s) == [ i \in DOMAIN s |-> s[Len(s) + 1 - i] ]

IndexOf(s, x) == CHOOSE i \in DOMAIN s : s[i] = x

RECURSIVE SumOver(_, _)
SumOver(S, f) ==
    IF S = {} THEN 0
    ELSE LET x == CHOOSE y \in S : TRUE IN f[x] + SumOver(S \ {x}, f)

Max(a, b) == IF a >= b THEN a ELSE b

\* ------------------------------------------------------------- nx.DiGraph
\* A networkx DiGraph: nodes in insertion order, for every node its
\* successors in insertion order, and the "relationship" attribute of every
\* edge (an index into the relationship registry; 0 when the edge carries no
\* such attribute).
EmptyDiGraph == [ nodes |-> << >>, succ |-> << >>, attr |-> << >> ]

NodeSet(G) == Range(G.nodes)

EdgeSet(G) == DOMAIN G.attr

add_node(G, n) ==
    IF n \in NodeSet(G) THEN G
    ELSE [ G EXCEPT !.nodes = Append(@, n),
                    !.succ = [ m \in NodeSet(G) \cup {n} |->
                                 IF m = n THEN << >> ELSE G.succ[m] ] ]

add_edge(G0, u, v, r) ==
    LET G == add_node(add_node(G0, u), v)
    IN  [ G EXCEPT !.succ = [ @ EXCEPT ![u] =
                                IF v \in Range(@) THEN @ ELSE Append(@, v) ],
                   !.attr = [ e \in DOMAIN G.attr \cup {<<u, v>>} |->
                                IF e = <<u, v>> THEN r ELSE G.attr[e] ] ]

remove_edge(G, u, v) ==
    [ G EXCEPT !.succ = [ @ EXCEPT ![u] = SelectSeq(@, LAMBDA w : w # v) ],
               !.attr = [ e \in DOMAIN G.attr \ {<<u, v>>} |-> G.attr[e] ] ]

RECURSIVE remove_edges(_, _)
remove_edges(G, E) ==
    IF E = {} THEN G
    ELSE LET e == CHOOSE x \in E : TRUE
         IN  remove_edges(remove_edge(G, e[1], e[2]), E \ {e})

successors(G, n) == Range(G.succ[n])

predecessors(G, n) == { m \in NodeSet(G) : n \in Range(G.succ[m]) }

\* G.subgraph(nodes) copied into a new DiGraph
subgraph(G, S) ==
    [ nodes |-> SelectSeq(G.nodes, LAMBDA n : n \in S),
      succ |-> [ n \in NodeSet(G) \cap S |->
                   SelectSeq(G.succ[n], LAMBDA w : w \in S) ],
      attr |-> [ e \in { x \in DOMAIN G.attr : x[1] \in S /\ x[2] \in S } |->
                   G.attr[e] ] ]

\* nx.descendants(G, v): the nodes reachable from v, v itself excluded
RECURSIVE Reach(_, _, _)
Reach(G, frontier, seen) ==
    IF frontier = {} THEN seen
    ELSE LET next == (UNION { successors(G, n) : n \in frontier }) \ seen
         IN  Reach(G, next, seen \cup next)

descendants(G, v) == Reach(G, {v}, {}) \ {v}

\* nx.strongly_connected_components(G), as a set of node sets
strongly_connected_components(G) ==
    { { w \in NodeSet(G) :
          w = v \/ (w \in Reach(G, {v}, {}) /\ v \in Reach(G, {w}, {})) } :
      v \in NodeSet(G) }

\* nx.simple_cycles(G): every elementary cycle once, as the node sequence
\* that starts at its smallest node; a self-loop is the cycle <<v>>
RECURSIVE CyclesFrom(_, _, _)
CyclesFrom(G, s, path) ==
    LET last == path[Len(path)]
        closing == IF s \in successors(G, last) THEN {path} ELSE {}
        further == { w \in successors(G, last) : w > s /\ w \notin Range(path) }
    IN  closing \cup UNION { CyclesFrom(G, s, Append(path, w)) : w \in further }

simple_cycles(G) == UNION { CyclesFrom(G, s, <<s>>) : s \in NodeSet(G) }

\* the edges (cycle[i], cycle[(i + 1) % len(cycle)]) of a cycle
CycleEdges(cycle) ==
    { <<cycle[i], cycle[(i % Len(cycle)) + 1]>> : i \in DOMAIN cycle }

\* nx.find_cycle raises NetworkXNoCycle / nx.is_directed_acyclic_graph
is_directed_acyclic_graph(G) == simple_cycles(G) = {}

\* nx.topological_sort(G), networkx >= 3.0: Kahn's algorithm by generations.
\* The zero-in-degree nodes are taken in node order, the children of a
\* generation in adjacency order.  ok = FALSE is NetworkXUnfeasible.
in_degree(G, n) == Cardinality(predecessors(G, n))

RECURSIVE Children(_, _)
Children(G, gen) ==
    IF gen = << >> THEN << >>
    ELSE G.succ[Head(gen)] \o Children(G, Tail(gen))

RECURSIVE Decrement(_, _, _)
Decrement(children, indegree_map, zero_indegree) ==
    IF children = << >>
    THEN [ indegree_map |-> indegree_map, zero_indegree |-> zero_indegree ]
    ELSE LET child == Head(children)
             d == indegree_map[child] - 1
         IN  Decrement(Tail(children),
                       [ indegree_map EXCEPT ![child] = d ],
                       IF d = 0 THEN Append(zero_indegree, child)
                       ELSE zero_indegree)

RECURSIVE Generations(_, _, _, _)
Generations(G, indegree_map, this_generation, out) ==
    IF this_generation = << >>
    THEN [ ok |-> \A n \in NodeSet(G) : indegree_map[n] = 0, order |-> out ]
    ELSE LET r == Decrement(Children(G, this_generation), indegree_map, << >>)
         IN  Generations(G, r.indegree_map, r.zero_indegree,
                         out \o this_generation)

topological_sort(G) ==
    Generations(G, [ n \in NodeSet(G) |-> in_degree(G, n) ],
                SelectSeq(G.nodes, LAMBDA n : in_degree(G, n) = 0), << >>)

\* ------------------------------------------------------- DependencyGraph
VARIABLES
    components,     \* DependencyGraph.components: the registered Components, in dict order
    relationships,  \* DependencyGraph.relationships: the registered Relationships, in dict order
    graph,          \* DependencyGraph.graph: the nx.DiGraph
    result,         \* what the latest generate_order call on this graph returned or raised
    selection,      \* what the latest TestOrderSelector call on this graph returned or raised
    generator       \* the lists a generator (or Selector) the client holds took at construction

vars == << components, relationships, graph, result, selection, generator >>

NoResult == [ algorithm |-> "none", status |-> "none" ]

NoSelection == [ call |-> "none", status |-> "none" ]

\* the client holds no generator: it constructs one for each call
NoGenerator == [ held |-> FALSE, components |-> << >>, relationships |-> << >> ]

ComponentIdSeq(comps) == [ i \in DOMAIN comps |-> comps[i].id ]

ComponentIdSet(comps) == { comps[i].id : i \in DOMAIN comps }

\* dict assignment d[key] = value on a dict kept as the sequence of its values
DictSet(d, value) ==
    IF \E i \in DOMAIN d : d[i].id = value.id
    THEN [ i \in DOMAIN d |-> IF d[i].id = value.id THEN value ELSE d[i] ]
    ELSE Append(d, value)

ComponentOf(comps, cid) == comps[CHOOSE i \in DOMAIN comps : comps[i].id = cid]

\* DependencyGraph.get_dependencies / get_dependents, as the sets of the
\* targets / sources of the returned relationships
get_dependencies(dg, c) == successors(dg.graph, c)

get_dependents(dg, c) == predecessors(dg.graph, c)

\* DependencyGraph.__init__
EmptyDependencyGraph ==
    [ components |-> << >>, relationships |-> << >>, graph |-> EmptyDiGraph ]

\* DependencyGraph.add_component
add_component(dg, component) ==
    [ dg EXCEPT !.components = DictSet(@, component),
                !.graph = add_node(@, component.id) ]

\* DependencyGraph.add_relationship
add_relationship(dg, relationship) ==
    [ dg EXCEPT !.relationships = DictSet(@, relationship),
                !.graph = add_edge(@, relationship.source, relationship.target,
                                   relationship.id) ]

\* Component(...) and Relationship(...): new objects; the id is the uuid4
\* default, named by creation order
Component(id, kind) ==
    [ id |-> id, name |-> kind.name,
      complexity_score |-> kind.complexity_score,
      importance_score |-> kind.importance_score ]

Relationship(id, source, target, kind) ==
    [ id |-> id, source |-> source, target |-> target,
      relationship_type |-> kind.relationship_type, strength |-> kind.strength ]

dependency_graph ==
    [ components |-> components, relationships |-> relationships, graph |-> graph ]

SetDependencyGraph(dg) ==
    /\ components' = dg.components
    /\ relationships' = dg.relationships
    /\ graph' = dg.graph

Init ==
    /\ components = EmptyDependencyGraph.components
    /\ relationships = EmptyDependencyGraph.relationships
    /\ graph = EmptyDependencyGraph.graph
    /\ result = NoResult
    /\ selection = NoSelection
    /\ generator = NoGenerator

\* a client registers a new Component
AddComponent ==
    /\ Len(components) < MaxComponents
    /\ \E kind \in ComponentKinds :
          SetDependencyGraph(
              add_component(dependency_graph, Component(Len(components) + 1, kind)))
    /\ result' = NoResult
    /\ selection' = NoSelection
    /\ UNCHANGED generator

\* a client registers a new Relationship between any two Component objects,
\* registered or not
AddRelationship ==
    /\ Len(relationships) < MaxRelationships
    /\ \E source \in ComponentIds, target \in ComponentIds, kind \in RelationshipKinds :
          SetDependencyGraph(
              add_relationship(dependency_graph,
                  Relationship(Len(relationships) + 1, source, target, kind)))
    /\ result' = NoResult
    /\ selection' = NoSelection
    /\ UNCHANGED generator

\* ------------------------------------------------ TestOrderGenerator (base)
\* TestOrderGenerator.__init__: the generator keeps the graph and the lists
\* get_components() / get_relationships() returned at construction.
TestOrderGenerator(comps, rels, G) ==
    [ dependency_graph |-> [ components |-> comps, relationships |-> rels, graph |-> G ],
      components |-> comps,
      relationships |-> rels ]

\* calculate_required_stubs.  KeyError when a component of the order is no
\* key of the stub dict and has a dependency not yet tested.
RECURSIVE StubWalk(_, _, _, _)
StubWalk(self, order, tested, stubs) ==
    IF order = << >> THEN [ ok |-> TRUE, stubs |-> stubs ]
    ELSE LET component == Head(order)
             needed == get_dependencies(self.dependency_graph, component) \ tested
         IN  IF needed # {} /\ component \notin DOMAIN stubs
             THEN [ ok |-> FALSE, stubs |-> stubs ]
             ELSE StubWalk(self, Tail(order), tested \cup {component},
                           IF needed = {} THEN stubs
                           ELSE [ stubs EXCEPT ![component] = @ \cup needed ])

calculate_required_stubs(self, order) ==
    StubWalk(self, order, {}, [ c \in ComponentIdSet(self.components) |-> {} ])

\* sum(len(stub_set) for stub_set in stubs.values())
TotalStubsOf(stubs) ==
    SumOver(DOMAIN stubs, [ c \in DOMAIN stubs |-> Cardinality(stubs[c]) ])

\* the metrics with the length of the order as the divisor and one stub
\* counted per stubbing component
calculate_metrics_per_order(self, order, stubs) ==
    LET components_with_stubs == Cardinality({ c \in DOMAIN stubs : stubs[c] # {} })
        n == Len(order) + 1
    IN  [ total_stub_count |-> components_with_stubs,
          components_with_stubs |-> components_with_stubs,
          average_stubs_per_component |-> <<components_with_stubs, n>>,
          stub_component_ratio |-> <<components_with_stubs, n>> ]

\* calculate_metrics; a ratio is the pair <<numerator, denominator>>
calculate_metrics(self, order, stubs) ==
    LET total_stubs == TotalStubsOf(stubs)
        components_with_stubs == Cardinality({ c \in DOMAIN stubs : stubs[c] # {} })
        n == Len(self.components)
    IN  [ total_stub_count |-> total_stubs,
          components_with_stubs |-> components_with_stubs,
          average_stubs_per_component |-> IF n > 0 THEN <<total_stubs, n>> ELSE <<0, 1>>,
          stub_component_ratio |-> IF n > 0 THEN <<components_with_stubs, n>> ELSE <<0, 1>> ]

\* validate_order
validate_order(self, order) ==
    /\ Range(order) = ComponentIdSet(self.components)
    /\ Len(order) = Cardinality(Range(order))

\* create_result
create_result(self, algorithm, order, stubs, level_assignments) ==
    [ algorithm |-> algorithm,
      status |-> "ok",
      order |-> order,
      stubs |-> stubs,
      metrics |-> calculate_metrics(self, order, stubs),
      level_assignments |-> level_assignments ]

\* generate_order raised
Raised(algorithm, error) == [ algorithm |-> algorithm, status |-> error ]

\* ------------------------------------------------ TaiDanielsOrderGenerator
\* relationship_weights.get(rel.relationship_type, 1.0), shared by
\* Tai-Daniels and MDTOG
relationship_weights(relationship_type) ==
    CASE relationship_type = "inheritance" -> 3
      [] relationship_type = "aggregation" -> 2
      [] relationship_type = "association" -> 1
      [] OTHER -> 1

\* _calculate_weighted_dependencies: weighted_deps[source][target]
RelTargets(self, source) ==
    { self.relationships[i].target :
        i \in { j \in DOMAIN self.relationships : self.relationships[j].source = source } }

weighted_deps(self, source, target) ==
    LET idx == { i \in DOMAIN self.relationships :
                   /\ self.relationships[i].source = source
                   /\ self.relationships[i].target = target }
    IN  SumOver(idx, [ i \in idx |->
            relationship_weights(self.relationships[i].relationship_type)
              * self.relationships[i].strength ])

\* the dependencies of a component that _assign_levels still waits for
UnassignedDeps(self, component, assigned) ==
    { dep \in RelTargets(self, component) :
        dep \notin assigned /\ weighted_deps(self, component, dep) > 0 }

\* _assign_levels with the level counter advanced once more when a cycle is
\* broken: the level before the cycle component stays empty
RECURSIVE TaiDanielsAssignLevelsSkip(_, _, _)
TaiDanielsAssignLevelsSkip(self, levels, assigned) ==
    IF Cardinality(assigned) >= Len(self.components) THEN levels
    ELSE
      LET ids == ComponentIdSeq(self.components)
          level_components ==
              SelectSeq(ids, LAMBDA c :
                  c \notin assigned /\ UnassignedDeps(self, c, assigned) = {})
          open == { i \in DOMAIN ids : ids[i] \notin assigned }
          count(i) == Cardinality(UnassignedDeps(self, ids[i], assigned))
          first == CHOOSE i \in open :
                      \A j \in open : count(i) < count(j) \/ (count(i) = count(j) /\ i <= j)
      IN  IF level_components # << >>
          THEN TaiDanielsAssignLevelsSkip(self, Append(levels, level_components),
                                          assigned \cup Range(level_components))
          ELSE TaiDanielsAssignLevelsSkip(self, levels \o << << >>, << ids[first] >> >>,
                                          assigned \cup {ids[first]})

\* _assign_levels: the list of levels, levels[k] being level k - 1
RECURSIVE TaiDanielsAssignLevels(_, _, _)
TaiDanielsAssignLevels(self, levels, assigned) ==
    IF Cardinality(assigned) >= Len(self.components) THEN levels
    ELSE
      LET ids == ComponentIdSeq(self.components)
          level_components ==
              SelectSeq(ids, LAMBDA c :
                  c \notin assigned /\ UnassignedDeps(self, c, assigned) = {})
          open == { i \in DOMAIN ids : ids[i] \notin assigned }
          count(i) == Cardinality(UnassignedDeps(self, ids[i], assigned))
          \* the first component with the minimum number of unassigned dependencies
          first == CHOOSE i \in open :
                      \A j \in open : count(i) < count(j) \/ (count(i) = count(j) /\ i <= j)
          chosen == IF level_components # << >> THEN level_components
                    ELSE << ids[first] >>
      IN  TaiDanielsAssignLevels(self, Append(levels, chosen), assigned \cup Range(chosen))

\* the sort key of _order_within_levels
CouplingKey(self, c) ==
    LET targets == RelTargets(self, c)
        comp == ComponentOf(self.components, c)
    IN  << 0 - SumOver(targets, [ t \in targets |-> weighted_deps(self, c, t) ]),
           0 - Cardinality(get_dependents(self.dependency_graph, c)),
           0 - comp.complexity_score,
           0 - comp.importance_score >>

\* tuple comparison k1 <= k2
RECURSIVE TupleLeq(_, _)
TupleLeq(k1, k2) ==
    IF k1 = << >> THEN TRUE
    ELSE IF Head(k1) # Head(k2) THEN Head(k1) < Head(k2)
    ELSE TupleLeq(Tail(k1), Tail(k2))

\* sorted(seq, key=...): stable; key is the function element |-> key tuple
RECURSIVE Sorted(_, _)
Sorted(seq, key) ==
    IF seq = << >> THEN << >>
    ELSE LET init == Sorted(SubSeq(seq, 1, Len(seq) - 1), key)
             x == seq[Len(seq)]
             \* x goes after every element whose key is <= its own
             before == { i \in DOMAIN init : TupleLeq(key[init[i]], key[x]) }
             pos == IF before = {} THEN 0
                    ELSE CHOOSE i \in before : \A j \in before : j <= i
         IN  SubSeq(init, 1, pos) \o << x >> \o SubSeq(init, pos + 1, Len(init))

\* _order_within_levels
RECURSIVE order_within_levels(_, _)
order_within_levels(self, levels) ==
    IF levels = << >> THEN << >>
    ELSE LET key == [ c \in Range(Head(levels)) |-> CouplingKey(self, c) ]
         IN  Sorted(Head(levels), key) \o order_within_levels(self, Tail(levels))

\* TaiDanielsOrderGenerator.generate_order
TaiDanielsGenerateOrder(self) ==
    LET levels == TaiDanielsAssignLevels(self, << >>, {})
        level_assignments ==
            [ c \in UNION { Range(levels[k]) : k \in DOMAIN levels } |->
                (CHOOSE k \in DOMAIN levels : c \in Range(levels[k])) - 1 ]
        ordered_components == order_within_levels(self, levels)
        stubs == calculate_required_stubs(self, ordered_components)
    IN  IF ~stubs.ok THEN Raised("Tai-Daniels", "KeyError")
        ELSE create_result(self, "Tai-Daniels", ordered_components, stubs.stubs,
                           level_assignments)

\* ------------------------------------------------------ TJJMOrderGenerator
\* nx.DiGraph(G): a new graph object with the nodes and edges of G.  An
\* object is the pair of the shared graph it was built from and its own
\* nodes and edges; removing an edge from the copy leaves the shared graph
\* alone.
\* the shared graph object itself instead of a copy
DiGraphAlias(G) == [ shared |-> G, own |-> G, alias |-> TRUE ]

DiGraphCopy(G) == [ shared |-> G, own |-> G, alias |-> FALSE ]

\* the edges removed from the shared graph object as well
ObjRemoveEdgesInPlace(obj, E) ==
    [ obj EXCEPT !.own = remove_edges(@, E), !.shared = remove_edges(@, E) ]

ObjRemoveEdges(obj, E) ==
    [ obj EXCEPT !.own = remove_edges(@, E),
                 !.shared = IF obj.alias THEN remove_edges(@, E) ELSE @ ]

\* DependencyGraph.get_strongly_connected_components: KeyError when a node of
\* the graph is no registered component
SccsRaise(dg) == ~(NodeSet(dg.graph) \subseteq ComponentIdSet(dg.components))

\* edge_cycle_count of _select_edge_to_break
edge_cycle_count(G, edge) ==
    Cardinality({ cycle \in simple_cycles(G) : edge \in CycleEdges(cycle) })

\* the edges on the fewest cycles instead of the most
TJJMSelectEdgeToBreakFewest(G) ==
    LET counted == { e \in EdgeSet(G) : edge_cycle_count(G, e) > 0 }
    IN  { e \in counted :
            \A f \in counted : edge_cycle_count(G, e) <= edge_cycle_count(G, f) }

\* TJJM _select_edge_to_break: the loop keeps the first edge, in the order of
\* the cycle enumeration, with the most cycles and, among those, the least
\* impact.  nx.simple_cycles starts its search at next(iter(scc)) of a set of
\* uuids, so which of the tied edges comes first depends on the uuid values:
\* each of them is taken as a possible outcome.
TJJMSelectEdgeToBreak(G) ==
    LET counted == { e \in EdgeSet(G) : edge_cycle_count(G, e) > 0 }
        impact(e) == Cardinality(descendants(G, e[2]))
    IN  { e \in counted :
            \A f \in counted :
               \/ edge_cycle_count(G, e) > edge_cycle_count(G, f)
               \/ /\ edge_cycle_count(G, e) = edge_cycle_count(G, f)
                  /\ impact(e) <= impact(f) }

\* _find_edges_to_break_cycle removing every edge of the SCC subgraph
TJJMFindEdgesToBreakCycleAll(self, scc) ==
    { EdgeSet(subgraph(self.dependency_graph.graph, scc)) }

\* TJJM _find_edges_to_break_cycle on the copied SCC subgraph: the possible
\* sets of removed edges
RECURSIVE TJJMBreak(_)
TJJMBreak(scc_subgraph) ==
    IF is_directed_acyclic_graph(scc_subgraph) THEN { {} }
    ELSE UNION { { {edge} \cup rest :
                     rest \in TJJMBreak(remove_edge(scc_subgraph, edge[1], edge[2])) } :
                 edge \in TJJMSelectEdgeToBreak(scc_subgraph) }

TJJMFindEdgesToBreakCycle(self, scc) ==
    TJJMBreak(subgraph(self.dependency_graph.graph, scc))

\* Step 3 of generate_order: the possible edges_to_remove over all SCCs with
\* more than one component
\* (scc_edges[scc] are the possible results of _find_edges_to_break_cycle)
RECURSIVE EdgesToRemove(_, _)
EdgesToRemove(sccs, scc_edges) ==
    IF sccs = {} THEN { {} }
    ELSE LET scc == CHOOSE x \in sccs : TRUE
         IN  { a \cup b : a \in scc_edges[scc],
                          b \in EdgesToRemove(sccs \ {scc}, scc_edges) }

\* _assign_levels of TJJM and BLW: the position in the order
PositionLevels(order) ==
    [ c \in Range(order) |-> (CHOOSE i \in DOMAIN order : order[i] = c) - 1 ]

\* the branch "no cycles" of TJJM / BLW generate_order
DagBranch(self, algorithm) ==
    LET sorted == topological_sort(self.dependency_graph.graph)
        order == Reverse(sorted.order)
        stubs == calculate_required_stubs(self, order)
    IN  IF ~sorted.ok THEN Raised(algorithm, "ValueError")
        ELSE IF ~stubs.ok THEN Raised(algorithm, "KeyError")
        ELSE create_result(self, algorithm, order, stubs.stubs, PositionLevels(order))

\* Steps 4 to 7 with Step 6 recording the source of a removed edge as a stub
\* of its target
CycleBranchStubsAtTarget(self, algorithm, modified_graph, edges_to_remove) ==
    LET modified == ObjRemoveEdges(modified_graph, edges_to_remove)
        sorted == topological_sort(modified.own)
        order == Reverse(sorted.order)
        stubs == [ c \in Range(order) |->
                     { e[1] : e \in { x \in edges_to_remove : x[2] = c } } ]
    IN  [ graph |-> modified.shared,
          result |-> IF ~sorted.ok THEN Raised(algorithm, "ValueError")
                     ELSE create_result(self, algorithm, order, stubs,
                                        PositionLevels(order)) ]

\* Steps 4 to 7 without Step 6: no removed edge is recorded as a stub
CycleBranchNoStubs(self, algorithm, modified_graph, edges_to_remove) ==
    LET modified == ObjRemoveEdges(modified_graph, edges_to_remove)
        sorted == topological_sort(modified.own)
        order == Reverse(sorted.order)
    IN  [ graph |-> modified.shared,
          result |-> IF ~sorted.ok THEN Raised(algorithm, "ValueError")
                     ELSE create_result(self, algorithm, order,
                                        [ c \in Range(order) |-> {} ],
                                        PositionLevels(order)) ]

\* Steps 4 to 7 of TJJM / BLW generate_order for one edges_to_remove
CycleBranch(self, algorithm, modified_graph, edges_to_remove) ==
    LET modified == ObjRemoveEdges(modified_graph, edges_to_remove)
        sorted == topological_sort(modified.own)
        order == Reverse(sorted.order)
        stubs == [ c \in Range(order) |->
                     { e[2] : e \in { x \in edges_to_remove : x[1] = c } } ]
    IN  [ graph |-> modified.shared,
          result |-> IF ~sorted.ok THEN Raised(algorithm, "ValueError")
                     ELSE create_result(self, algorithm, order, stubs,
                                        PositionLevels(order)) ]

\* TJJMOrderGenerator.generate_order: the possible outcomes, each the result
\* and the shared graph as the call leaves it
TJJMGenerateOrder(self) ==
    LET dg == self.dependency_graph
        sccs == strongly_connected_components(dg.graph)
    IN  IF SccsRaise(dg)
        THEN { [ graph |-> dg.graph, result |-> Raised("TJJM", "KeyError") ] }
        ELSE IF \A scc \in sccs : Cardinality(scc) = 1
        THEN { [ graph |-> dg.graph, result |-> DagBranch(self, "TJJM") ] }
        ELSE LET cyclic == { scc \in sccs : Cardinality(scc) > 1 }
                 scc_edges == [ scc \in cyclic |-> TJJMFindEdgesToBreakCycle(self, scc) ]
             IN  { CycleBranch(self, "TJJM", DiGraphCopy(dg.graph), edges_to_remove) :
                     edges_to_remove \in EdgesToRemove(cyclic, scc_edges) }

\* ------------------------------------------------------- BLWOrderGenerator
\* BLW _select_edge_to_break: for the first edge of the first cycle it calls
\* self.dependency_graph.get_relationship(source, target);
\* DependencyGraph.get_relationship takes one relationship id, so the call
\* raises TypeError.  No edge is ever selected.
BLWSelectEdgeToBreak(G) ==
    IF simple_cycles(G) = {} THEN [ raised |-> FALSE, edges |-> {} ]
    ELSE [ raised |-> TRUE, edges |-> {} ]

\* BLW _find_edges_to_break_cycle: TRUE when it raises
BLWFindEdgesToBreakCycleRaises(self, scc) ==
    LET scc_subgraph == subgraph(self.dependency_graph.graph, scc)
    IN  /\ ~is_directed_acyclic_graph(scc_subgraph)
        /\ BLWSelectEdgeToBreak(scc_subgraph).raised

\* BLWOrderGenerator.generate_order
BLWGenerateOrder(self) ==
    LET dg == self.dependency_graph
        sccs == strongly_connected_components(dg.graph)
        cyclic == { scc \in sccs : Cardinality(scc) > 1 }
    IN  IF SccsRaise(dg)
        THEN { [ graph |-> dg.graph, result |-> Raised("BLW", "KeyError") ] }
        ELSE IF cyclic = {}
        THEN { [ graph |-> dg.graph, result |-> DagBranch(self, "BLW") ] }
        ELSE IF \E scc \in cyclic : BLWFindEdgesToBreakCycleRaises(self, scc)
        THEN { [ graph |-> dg.graph, result |-> Raised("BLW", "TypeError") ] }
        ELSE { CycleBranch(self, "BLW", DiGraphCopy(dg.graph), {}) }

\* ----------------------------------------------------- MDTOGOrderGenerator
\* _create_weighted_graph: the components as nodes, then one edge per
\* relationship (the edge attribute is the weight)
RECURSIVE AddNodes(_, _)
AddNodes(G, nodes) ==
    IF nodes = << >> THEN G ELSE AddNodes(add_node(G, Head(nodes)), Tail(nodes))

RECURSIVE AddWeightedEdges(_, _)
AddWeightedEdges(G, rels) ==
    IF rels = << >> THEN G
    ELSE LET rel == Head(rels)
         IN  AddWeightedEdges(
                 add_edge(G, rel.source, rel.target,
                          relationship_weights(rel.relationship_type) * rel.strength),
                 Tail(rels))

create_weighted_graph(self) ==
    AddWeightedEdges(AddNodes(EmptyDiGraph, ComponentIdSeq(self.components)),
                     self.relationships)

\* The order in which nx.strongly_connected_components yields the SCCs of a
\* graph whose SCCs are all single nodes: the order in which its depth-first
\* search, started at the nodes in node order and following the adjacency
\* order, finishes the nodes.
RECURSIVE Visit(_, _, _), VisitAll(_, _, _)
Visit(G, v, st) ==
    IF v \in st.seen THEN st
    ELSE LET after == VisitAll(G, G.succ[v], [ st EXCEPT !.seen = @ \cup {v} ])
         IN  [ after EXCEPT !.out = Append(@, v) ]
VisitAll(G, nodes, st) ==
    IF nodes = << >> THEN st
    ELSE VisitAll(G, Tail(nodes), Visit(G, Head(nodes), st))

SccYieldOrder(G) == VisitAll(G, G.nodes, [ seen |-> {}, out |-> << >> ]).out

\* nx.condensation(graph, scc=sccs) of such a graph: node i is the i-th
\* yielded SCC, the edges are the edges between different SCCs
condensation(G) ==
    [ nodes |-> SccYieldOrder(G),
      succ |-> [ n \in NodeSet(G) |-> SelectSeq(G.succ[n], LAMBDA w : w # n) ],
      attr |-> [ e \in { x \in DOMAIN G.attr : x[1] # x[2] } |-> 0 ] ]

\* MDTOG _find_minimum_feedback_arc_set(subgraph): graph.subgraph(scc) is a
\* frozen view, so the first graph.remove_edge raises NetworkXError
FindMinimumFeedbackArcSetRaises(subgraph_view) ==
    ~is_directed_acyclic_graph(subgraph_view) /\ EdgeSet(subgraph_view) # {}

\* MDTOG _break_cycles_and_order
break_cycles_and_order(weighted_graph) ==
    LET sccs == strongly_connected_components(weighted_graph)
        cyclic == { scc \in sccs : Cardinality(scc) > 1 }
    IN  IF \E scc \in cyclic :
              FindMinimumFeedbackArcSetRaises(subgraph(weighted_graph, scc))
        THEN [ raised |-> TRUE, order |-> << >> ]
        ELSE [ raised |-> FALSE,
               order |-> topological_sort(condensation(weighted_graph)).order ]

\* the position in the order as the level, as TJJM and BLW assign it
MDTOGAssignLevelsByPosition(weighted_graph, ordered_components, levels) ==
    PositionLevels(ordered_components)

\* MDTOG _assign_levels
RECURSIVE MDTOGAssignLevels(_, _, _)
MDTOGAssignLevels(weighted_graph, ordered_components, levels) ==
    IF ordered_components = << >> THEN levels
    ELSE LET component == Head(ordered_components)
             done == predecessors(weighted_graph, component) \cap DOMAIN levels
             max_dep_level ==
                 IF done = {} THEN -1
                 ELSE CHOOSE l \in { levels[p] : p \in done } :
                         \A p \in done : levels[p] <= l
         IN  MDTOGAssignLevels(weighted_graph, Tail(ordered_components),
                 [ c \in DOMAIN levels \cup {component} |->
                     IF c = component THEN max_dep_level + 1 ELSE levels[c] ])

\* MDTOGOrderGenerator.generate_order
MDTOGGenerateOrder(self) ==
    LET weighted_graph == create_weighted_graph(self)
        ordered == break_cycles_and_order(weighted_graph)
        stubs == calculate_required_stubs(self, ordered.order)
    IN  IF ordered.raised THEN Raised("MDTOG", "NetworkXError")
        ELSE IF ~stubs.ok THEN Raised("MDTOG", "KeyError")
        ELSE create_result(self, "MDTOG", ordered.order, stubs.stubs,
                           MDTOGAssignLevels(weighted_graph, ordered.order, << >>))

\* ------------------------------------------------------ TestOrderSelector
\* TestOrderSelector.__init__: self.algorithms, in dict order
SelectorAlgorithms == << "Tai-Daniels", "TJJM", "BLW" >>

\* self.algorithms[name].generate_order(): the possible outcomes
AlgorithmGenerateOrder(self, name) ==
    CASE name = "Tai-Daniels" ->
           { [ graph |-> self.dependency_graph.graph,
               result |-> TaiDanielsGenerateOrder(self) ] }
      [] name = "TJJM" -> TJJMGenerateOrder(self)
      [] name = "BLW" -> BLWGenerateOrder(self)
      [] name = "MDTOG" ->
           { [ graph |-> self.dependency_graph.graph,
               result |-> MDTOGGenerateOrder(self) ] }

\* TestOrderSelector._calculate_stub_complexity: for the first stub it calls
\* self.dependency_graph.get_relationship(component, stub), which raises
\* TypeError; without stubs the complexity is 0.0
SelectorStubComplexity(res) ==
    IF \E c \in DOMAIN res.stubs : res.stubs[c] # {}
    THEN [ raised |-> TRUE, value |-> 0 ]
    ELSE [ raised |-> FALSE, value |-> 0 ]

Abs(x) == IF x < 0 THEN 0 - x ELSE x

\* TestOrderSelector._evaluate_test_sequence after its guard; the score is
\* the ratio <<numerator, denominator>>.  max() of no levels raises
\* ValueError, a component with dependencies and no stub entry raises
\* KeyError.
sequence_quality(dg, res) ==
    IF DOMAIN res.level_assignments = {} \/
            \E c \in Range(res.order) :
                get_dependencies(dg, c) # {} /\ c \notin DOMAIN res.stubs
    THEN [ raised |-> TRUE, value |-> <<0, 1>> ]
    ELSE
      LET assigned == DOMAIN res.level_assignments
          max_level == CHOOSE l \in { res.level_assignments[c] : c \in assigned } :
                          \A c \in assigned : res.level_assignments[c] <= l
          nlevels == max_level + 1
          n == Len(res.order)
          level_count(l) == Cardinality({ c \in assigned : res.level_assignments[c] = l })
          \* sum(abs(count - n / nlevels)) * nlevels
          deviation == SumOver(0..max_level,
                               [ l \in 0..max_level |-> Abs(level_count(l) * nlevels - n) ])
          total_deps == SumOver(Range(res.order),
                                [ c \in Range(res.order) |->
                                    Cardinality(get_dependencies(dg, c)) ])
          preserved_deps == SumOver(Range(res.order),
                                    [ c \in Range(res.order) |->
                                        IF get_dependencies(dg, c) = {} THEN 0
                                        ELSE Cardinality(get_dependencies(dg, c) \ res.stubs[c]) ])
          \* level_balance = (n * nlevels - deviation) / (n * nlevels)
          \* dependency_score = preserved_deps / total_deps, or 1.0
          dep_num == IF total_deps > 0 THEN preserved_deps ELSE 1
          dep_den == IF total_deps > 0 THEN total_deps ELSE 1
      IN  [ raised |-> FALSE,
            value |-> << (n * nlevels - deviation) * dep_den + dep_num * n * nlevels,
                         2 * n * nlevels * dep_den >> ]

\* _evaluate_test_sequence without the guard "if not result.order"
evaluate_test_sequence_unguarded(dg, res) == sequence_quality(dg, res)

\* TestOrderSelector._evaluate_test_sequence
evaluate_test_sequence(dg, res) ==
    IF res.order = << >> THEN [ raised |-> FALSE, value |-> <<0, 1>> ]
    ELSE sequence_quality(dg, res)

\* The scores are floats in the code; here a score is the exact ratio
\* <<numerator, denominator>> with a positive denominator.
RECURSIVE Gcd(_, _)
Gcd(a, b) == IF b = 0 THEN a ELSE Gcd(b, a % b)

\* the ratio in lowest terms
Lowest(r) ==
    LET g == Gcd(r[1], r[2])
    IN  IF r[1] = 0 THEN << 0, 1 >> ELSE << r[1] \div g, r[2] \div g >>

RatAdd(a, b) == Lowest(<< a[1] * b[2] + b[1] * a[2], a[2] * b[2] >>)

RatMul(a, b) == Lowest(<< a[1] * b[1], a[2] * b[2] >>)

RatLess(a, b) == a[1] * b[2] < b[1] * a[2]

Tenths(k) == << k, 10 >>

\* nx.density(graph) of a DiGraph: m / (n * (n - 1)), 0 without edges or
\* with at most one node
density(G) ==
    LET n == Len(G.nodes)
        m == Cardinality(EdgeSet(G))
    IN  IF m = 0 \/ n <= 1 THEN << 0, 1 >> ELSE << m, n * (n - 1) >>

\* nx.clustering(graph)[i] of a DiGraph: the directed triangles through i
\* over 2 * (dt * (dt - 1) - 2 * db), dt the total and db the reciprocal
\* degree of i, self-loops left out; 0 without triangles
clustering(G, i) ==
    LET preds(n) == predecessors(G, n) \ {n}
        succs(n) == successors(G, n) \ {n}
        through(j) == Cardinality(preds(i) \cap preds(j)) + Cardinality(preds(i) \cap succs(j))
                        + Cardinality(succs(i) \cap preds(j)) + Cardinality(succs(i) \cap succs(j))
        directed_triangles ==
            SumOver(preds(i), [ j \in preds(i) |-> through(j) ])
              + SumOver(succs(i), [ j \in succs(i) |-> through(j) ])
        dtotal == Cardinality(preds(i)) + Cardinality(succs(i))
        dbidirectional == Cardinality(preds(i) \cap succs(i))
    IN  IF directed_triangles = 0 THEN << 0, 1 >>
        ELSE << directed_triangles, 2 * (dtotal * (dtotal - 1) - 2 * dbidirectional) >>

RECURSIVE RatSum(_, _)
RatSum(S, f) ==
    IF S = {} THEN << 0, 1 >>
    ELSE LET x == CHOOSE y \in S : TRUE IN RatAdd(f[x], RatSum(S \ {x}, f))

\* nx.average_clustering(graph) inside try / except: the mean of the
\* clustering coefficients; the empty graph divides by zero and gives 0
average_clustering(G) ==
    LET n == Len(G.nodes)
        total == RatSum(NodeSet(G), [ i \in NodeSet(G) |-> clustering(G, i) ])
    IN  IF n = 0 THEN << 0, 1 >> ELSE << total[1], total[2] * n >>

\* TestOrderSelector._calculate_suitability
calculate_suitability(dg, algorithm_name) ==
    LET d == density(dg.graph)
        c == average_clustering(dg.graph)
        one_minus(x) == << x[2] - x[1], x[2] >>
    IN  CASE algorithm_name = "Tai-Daniels" ->
               RatAdd(RatMul(one_minus(d), Tenths(6)), RatMul(one_minus(c), Tenths(4)))
          [] algorithm_name = "TJJM" ->
               RatAdd(RatMul(d, Tenths(4)), RatMul(c, Tenths(6)))
          [] algorithm_name = "BLW" ->
               RatAdd(RatMul(d, Tenths(5)), RatMul(c, Tenths(5)))
          [] OTHER -> Tenths(5)

\* TestOrderSelector._calculate_weights, in tenths
calculate_weights(dg) ==
    LET d == density(dg.graph)
    IN  IF RatLess(d, Tenths(3))
        THEN [ stubs |-> 4, complexity |-> 2, quality |-> 3, suitability |-> 1 ]
        ELSE IF RatLess(Tenths(7), d)
        THEN [ stubs |-> 2, complexity |-> 4, quality |-> 2, suitability |-> 2 ]
        ELSE [ stubs |-> 3, complexity |-> 3, quality |-> 2, suitability |-> 2 ]

\* the weighted score of select_best_algorithm for one comparison
weighted_score(weights, comparison) ==
    RatAdd(RatAdd(RatMul(Tenths(weights.stubs), << 1, comparison.total_stubs + 1 >>),
                  RatMul(Tenths(weights.complexity), << 1, comparison.stub_complexity + 1 >>)),
           RatAdd(RatMul(Tenths(weights.quality), comparison.test_sequence_quality),
                  RatMul(Tenths(weights.suitability), comparison.suitability_score)))

\* TestOrderSelector._evaluate_algorithm
evaluate_algorithm(dg, name, res) ==
    LET complexity == SelectorStubComplexity(res)
        quality == evaluate_test_sequence(dg, res)
    IN  [ error |-> IF complexity.raised THEN "TypeError"
                    ELSE IF quality.raised THEN "ValueError" ELSE "ok",
          comparison |-> [ algorithm_name |-> name,
                           total_stubs |-> TotalStubsOf(res.stubs),
                           stub_complexity |-> complexity.value,
                           test_sequence_quality |-> quality.value,
                           suitability_score |-> calculate_suitability(dg, name) ] ]

\* TestOrderSelector.compare_algorithms: the possible outcomes.  The loop
\* stops at the first generate_order or evaluation that raises.
RECURSIVE CompareLoop(_, _, _)
CompareLoop(self, names, comparisons) ==
    IF names = << >> THEN { [ status |-> "ok", comparisons |-> comparisons ] }
    ELSE
      LET name == Head(names) IN
      UNION { IF outcome.result.status # "ok"
              THEN { [ status |-> outcome.result.status, comparisons |-> comparisons ] }
              ELSE LET ev == evaluate_algorithm(self.dependency_graph, name, outcome.result)
                   IN  IF ev.error # "ok"
                       THEN { [ status |-> ev.error, comparisons |-> comparisons ] }
                       ELSE CompareLoop(self, Tail(names),
                                        Append(comparisons, ev.comparison)) :
              outcome \in AlgorithmGenerateOrder(self, name) }

compare_algorithms(self) == CompareLoop(self, SelectorAlgorithms, << >>)

\* the loop of select_best_algorithm with the comparison "score <=
\* best_score": the last entry with the lowest weighted score
LowestScore(weights, comparisons) ==
    { best \in Range(comparisons) :
        \A other \in Range(comparisons) :
            ~RatLess(weighted_score(weights, other), weighted_score(weights, best)) }

\* the loop of select_best_algorithm: the first entry, in dict order, with
\* the highest weighted score.  Entries whose exact scores are equal are
\* separated in the code by the rounding of the float arithmetic only: each
\* of them is taken as a possible winner.
HighestScore(weights, comparisons) ==
    { best \in Range(comparisons) :
        \A other \in Range(comparisons) :
            ~RatLess(weighted_score(weights, best), weighted_score(weights, other)) }

\* TestOrderSelector.select_best_algorithm: the possible outcomes.  Without
\* comparisons best_algorithm stays None and comparisons[None] raises
\* KeyError; that cannot happen with the three registered algorithms.
select_best_algorithm(self) ==
    UNION { IF compared.status # "ok"
            THEN { [ call |-> "select_best_algorithm", status |-> compared.status ] }
            ELSE UNION { { [ call |-> "select_best_algorithm",
                             status |-> outcome.result.status,
                             best_algorithm |-> best.algorithm_name,
                             comparisons |-> compared.comparisons,
                             result |-> outcome.result ] :
                           outcome \in AlgorithmGenerateOrder(self, best.algorithm_name) } :
                         best \in HighestScore(calculate_weights(self.dependency_graph),
                                               compared.comparisons) } :
            compared \in compare_algorithms(self) }

\* ------------------------------------------------------------- the calls
\* A client builds a generator (or a selector) on the graph and calls it.
\* the generator a call is made on: the one the client holds, with the
\* lists it took when it was constructed and the graph object as it is now,
\* or one constructed for the call
Generator ==
    IF generator.held
    THEN [ TestOrderGenerator(components, relationships, graph)
             EXCEPT !.components = generator.components,
                    !.relationships = generator.relationships ]
    ELSE TestOrderGenerator(components, relationships, graph)

generate_order(name) ==
    \E outcome \in AlgorithmGenerateOrder(Generator, name) :
        /\ result' = outcome.result
        /\ graph' = outcome.graph
        /\ selection' = NoSelection
        /\ UNCHANGED << components, relationships, generator >>

generate_tai_daniels == generate_order("Tai-Daniels")

generate_tjjm == generate_order("TJJM")

generate_blw == generate_order("BLW")

generate_mdtog == generate_order("MDTOG")

compare ==
    \E compared \in compare_algorithms(Generator) :
        /\ selection' = [ call |-> "compare_algorithms", status |-> compared.status,
                          comparisons |-> compared.comparisons ]
        /\ result' = NoResult
        /\ UNCHANGED << components, relationships, graph, generator >>

select_best ==
    \E selected \in select_best_algorithm(Generator) :
        /\ selection' = selected
        /\ result' = NoResult
        /\ UNCHANGED << components, relationships, graph, generator >>

\* a client builds the graph step by step and runs the strategies on it
Next ==
    \/ AddComponent
    \/ AddRelationship
    \/ generate_tai_daniels
    \/ generate_tjjm
    \/ generate_blw
    \/ generate_mdtog

Spec == Init /\ [][Next]_vars

\* ------------------------------------------------ graphs built by a client
\* The Components of the tests: Component0, Component1, ... with
\* complexity_score 0.5 * i (the score is not clamped)
TestNames ==
    << "Component0", "Component1", "Component2", "Component3", "Component4",
       "Component5", "Component6" >>

TestComponent(id) ==
    Component(id, [ name |-> TestNames[id], complexity_score |-> 5 * (id - 1),
                    importance_score |-> 0 ])

Association == [ relationship_type |-> "association", strength |-> 2 ]

RECURSIVE AddComponents(_, _, _)
AddComponents(dg, id, n) ==
    IF id > n THEN dg
    ELSE AddComponents(add_component(dg, TestComponent(id)), id + 1, n)

RECURSIVE AddRelationships(_, _)
AddRelationships(dg, pairs) ==
    IF pairs = << >> THEN dg
    ELSE AddRelationships(
             add_relationship(dg,
                 Relationship(Len(dg.relationships) + 1, Head(pairs)[1],
                              Head(pairs)[2], Association)),
             Tail(pairs))

\* n components registered first, then one association per pair, in order
BuildGraph(n, pairs) ==
    AddRelationships(AddComponents(EmptyDependencyGraph, 1, n), pairs)

\* the pairs of a set, in lexicographic order
RECURSIVE PairSeq(_)
PairSeq(E) ==
    IF E = {} THEN << >>
    ELSE LET first == CHOOSE e \in E :
                         \A f \in E : e[1] < f[1] \/ (e[1] = f[1] /\ e[2] <= f[2])
         IN  << first >> \o PairSeq(E \ {first})

\* A -> B -> C ...: component i depends on component i + 1, or the other way
ChainGraphs ==
    { BuildGraph(n, [ i \in 1..(n - 1) |-> <<i, i + 1>> ]) : n \in 1..MaxChain } \cup
    { BuildGraph(n, [ i \in 1..(n - 1) |-> <<i + 1, i>> ]) : n \in 1..MaxChain }

\* one simple cycle through n components, the relationships added starting
\* at any component of the cycle, in either direction
CycleGraphs ==
    { BuildGraph(n, [ i \in 1..n |-> << ((i + k - 1) % n) + 1, ((i + k) % n) + 1 >> ]) :
        n \in 2..MaxCycle, k \in 0..(MaxCycle - 1) } \cup
    { BuildGraph(n, [ i \in 1..n |-> << ((i + k) % n) + 1, ((i + k - 1) % n) + 1 >> ]) :
        n \in 2..MaxCycle, k \in 0..(MaxCycle - 1) }

\* two triangles 0 -> 1 -> 2 -> 0 and 2 -> 3 -> 4 -> 2 sharing Component2,
\* with or without a sixth component that Component4 depends on
\* (tests/strategy/test_order/test_tjjm.py)
TwoTriangles ==
    << <<1, 2>>, <<2, 3>>, <<3, 1>>, <<3, 4>>, <<4, 5>>, <<5, 3>> >>

TriangleGraphs ==
    { BuildGraph(5, TwoTriangles),
      BuildGraph(6, TwoTriangles),
      BuildGraph(6, TwoTriangles \o << <<5, 6>> >>) }

\* four components on overlapping cycles: 0 -> 1 -> 2 -> 0, 0 -> 2 -> 0,
\* 2 -> 3 -> 2 and 1 -> 2 -> 3 -> 1
OverlappingCycles ==
    << <<1, 2>>, <<1, 3>>, <<2, 3>>, <<3, 1>>, <<3, 4>>, <<4, 2>>, <<4, 3>> >>

OverlappingGraphs == { BuildGraph(4, OverlappingCycles) }

\* every graph of up to MaxComponents components and up to MaxEdges
\* association relationships (self-relationships included)
SmallGraphs ==
    UNION { { BuildGraph(n, PairSeq(E)) :
                E \in { F \in SUBSET ((1..n) \X (1..n)) : Cardinality(F) <= MaxEdges } } :
            n \in 0..MaxComponents }

ClientGraphs ==
    ChainGraphs \cup CycleGraphs \cup TriangleGraphs \cup OverlappingGraphs \cup SmallGraphs

\* the strategies and the selector as functions of a graph a client has built
InitOrder ==
    /\ \E dg \in ClientGraphs :
          /\ components = dg.components
          /\ relationships = dg.relationships
          /\ graph = dg.graph
    /\ result = NoResult
    /\ selection = NoSelection
    /\ generator = NoGenerator

NextOrder ==
    \/ generate_tai_daniels
    \/ generate_tjjm
    \/ generate_blw
    \/ generate_mdtog
    \/ compare
    \/ select_best

SpecOrder == InitOrder /\ [][NextOrder]_vars

\* TestOrderGenerator(dependency_graph) / TestOrderSelector(dependency_graph):
\* the lists get_components() and get_relationships() return at construction
HeldGenerator(dg) ==
    [ held |-> TRUE, components |-> dg.components, relationships |-> dg.relationships ]

\* a client constructs a generator (or Selector) on a graph, goes on
\* registering components and relationships, and calls the held object
InitHeld ==
    /\ \E dg \in SmallGraphs :
          /\ components = dg.components
          /\ relationships = dg.relationships
          /\ graph = dg.graph
          /\ generator = HeldGenerator(dg)
    /\ result = NoResult
    /\ selection = NoSelection

NextHeld ==
    \/ AddComponent
    \/ AddRelationship
    \/ generate_tai_daniels
    \/ generate_tjjm
    \/ generate_blw
    \/ generate_mdtog
    \/ select_best

SpecHeld == InitHeld /\ [][NextHeld]_vars

\* ----------------------------------------------------------- properties
\* every relationship joins registered components
WellFormed ==
    \A i \in DOMAIN relationships :
        /\ relationships[i].source \in ComponentIdSet(components)
        /\ relationships[i].target \in ComponentIdSet(components)

Called == result.algorithm # "none"

Returned == result.status = "ok"

Position(order, c) == CHOOSE i \in DOMAIN order : order[i] = c

Earlier(order, d, c) ==
    /\ d \in Range(order)
    /\ c \in Range(order)
    /\ Position(order, d) < Position(order, c)

IsPermutation(order, comps) ==
    /\ Len(order) = Len(comps)
    /\ Range(order) = ComponentIdSet(comps)

StubbedEdges(stubs) ==
    { e \in EdgeSet(graph) : e[1] \in DOMAIN stubs /\ e[2] \in stubs[e[1]] }

HasSelfLoop == \E e \in EdgeSet(graph) : e[1] = e[2]

Cyclic == ~is_directed_acyclic_graph(graph)


NonStubbed(stubs) == remove_edges(graph, StubbedEdges(stubs))

\* the graph is one simple cycle through all its components
SimpleCycleGraph ==
    /\ Len(components) >= 2
    /\ NodeSet(graph) = ComponentIdSet(components)
    /\ \A c \in NodeSet(graph) :
          /\ Cardinality(successors(graph, c)) = 1
          /\ Cardinality(predecessors(graph, c)) = 1
    /\ strongly_connected_components(graph) = { NodeSet(graph) }

\* the graph is one of the two-triangle graphs sharing Component2 (id 3)
TwoTriangleGraph == dependency_graph \in TriangleGraphs

EmptyGraph == components = << >> /\ relationships = << >> /\ NodeSet(graph) = {}

\* C1: for every strategy and every graph whose relationships join
\* registered components, generate_order returns, and the returned order
\* contains each component of the graph exactly once.
C1_OrderIsPermutation ==
    (Called /\ WellFormed) => (Returned /\ IsPermutation(result.order, components))

\* C2: stub soundness.  In every returned result, stubs[c] is exactly the
\* set of direct dependencies of c that do not appear earlier than c in the
\* order.
C2_StubSoundness ==
    Returned =>
        \A c \in ComponentIdSet(components) :
            /\ c \in DOMAIN result.stubs
            /\ result.stubs[c] =
                  { d \in get_dependencies(dependency_graph, c) :
                      ~Earlier(result.order, d, c) }

C4_LevelMonotonicity ==
    (Returned /\ WellFormed) =>
        \A e \in EdgeSet(NonStubbed(result.stubs)) :
            /\ e[1] \in DOMAIN result.level_assignments
            /\ e[2] \in DOMAIN result.level_assignments
            /\ result.level_assignments[e[2]] < result.level_assignments[e[1]]

\* C5: idempotence on acyclic input.  On an acyclic graph every strategy
\* returns a result with zero stubs and an order in which every component
\* comes after all of its dependencies; on the chain A -> B -> C the order is
\* [C, B, A] with levels C = 0, B = 1, A = 2.
C5_AcyclicIdempotence ==
    (Called /\ ~Cyclic) =>
        /\ Returned
        /\ TotalStubsOf(result.stubs) = 0
        /\ \A e \in EdgeSet(graph) : Earlier(result.order, e[2], e[1])
        /\ dependency_graph = BuildGraph(3, << <<1, 2>>, <<2, 3>> >>) =>
              /\ result.order = << 3, 2, 1 >>
              /\ result.level_assignments = (1 :> 2) @@ (2 :> 1) @@ (3 :> 0)

\* C6: after any sequence of add_component / add_relationship calls, every
\* stored relationship and every graph edge joins registered components.
C6_EndpointsRegistered ==
    /\ WellFormed
    /\ NodeSet(graph) \subseteq ComponentIdSet(components)

\* C7: no generate_order call, returning or raising, changes the components,
\* the relationships or the adjacency of the shared dependency graph.
C7_GraphNotMutated ==
    [][Called' => UNCHANGED << components, relationships, graph >>]_vars

C7_Witness ==
    /\ Returned
    /\ result.algorithm = "TJJM"
    /\ TotalStubsOf(result.stubs) > 0
    /\ \A c \in DOMAIN result.stubs : \A d \in result.stubs[c] : <<c, d>> \in EdgeSet(graph)

ZeroMetrics ==
    [ total_stub_count |-> 0, components_with_stubs |-> 0,
      average_stubs_per_component |-> <<0, 1>>, stub_component_ratio |-> <<0, 1>> ]

\* C8: on a graph with zero components every strategy returns an empty
\* order, an empty stub map, empty level assignments and metrics all zero,
\* and compare_algorithms and select_best_algorithm return without raising.
C8_EmptyGraph ==
    EmptyGraph =>
        /\ Called =>
              /\ Returned
              /\ result.order = << >>
              /\ DOMAIN result.stubs = {}
              /\ DOMAIN result.level_assignments = {}
              /\ result.metrics = ZeroMetrics
        /\ selection.call # "none" => selection.status = "ok"
        /\ selection.call = "select_best_algorithm" =>
              /\ selection.result.order = << >>
              /\ DOMAIN selection.result.stubs = {}
              /\ selection.result.metrics = ZeroMetrics

C8_Witness ==
    /\ EmptyGraph
    /\ selection.call = "select_best_algorithm"
    /\ selection.status = "ok"
    /\ selection.result.order = << >>

\* C9: on a graph that is one simple cycle of association relationships,
\* every strategy returns and stubs exactly one edge: exactly one component
\* has a non-empty stub set, of size 1, and the non-stubbed edges are
\* acyclic.
C9_SingleCycleOneStub ==
    (Called /\ SimpleCycleGraph) =>
        /\ Returned
        /\ Cardinality({ c \in DOMAIN result.stubs : result.stubs[c] # {} }) = 1
        /\ TotalStubsOf(result.stubs) = 1
        /\ is_directed_acyclic_graph(NonStubbed(result.stubs))

\* C10: on the two triangles 0 -> 1 -> 2 -> 0 and 2 -> 3 -> 4 -> 2 sharing
\* Component2, every strategy returns at most 2 stubs in total and at most 2
\* stubs for the shared component.
C10_TwoTrianglesTwoStubs ==
    (Called /\ TwoTriangleGraph) =>
        /\ Returned
        /\ TotalStubsOf(result.stubs) <= 2
        /\ Cardinality(result.stubs[3]) <= 2

\* ------------------------------------------------- the selector's comparison
\* the strategy succeeds on its own: its generate_order returns and
\* _evaluate_algorithm scores the result without raising
SucceedsAlone(name) ==
    \E outcome \in AlgorithmGenerateOrder(Generator, name) :
        /\ outcome.result.status = "ok"
        /\ evaluate_algorithm(dependency_graph, name, outcome.result).error = "ok"

\* the keys of the dict compare_algorithms has filled
ComparedNames ==
    { selection.comparisons[i].algorithm_name : i \in DOMAIN selection.comparisons }

\* C11: the selector isolates strategy failures.  compare_algorithms returns
\* whatever a strategy's generate_order or scoring does, and its result holds
\* an entry for exactly the strategies that succeed on the graph.
C11_FailureIsolation ==
    selection.call = "compare_algorithms" =>
        /\ selection.status = "ok"
        /\ ComparedNames = { name \in Range(SelectorAlgorithms) : SucceedsAlone(name) }

\* the four strategies of src/strategy/test_order
StrategyNames == { "Tai-Daniels", "TJJM", "BLW", "MDTOG" }

\* generate_order of the strategy returns on the graph
GeneratesOrder(name) ==
    \A outcome \in AlgorithmGenerateOrder(Generator, name) : outcome.result.status = "ok"

\* C12: on a graph on which the four strategies return (with or without
\* stubs), compare_algorithms returns one comparison entry for each of
\* Tai-Daniels, TJJM, BLW and MDTOG, keyed by the strategy's name.
C12_ComparesAllFour ==
    (selection.call = "compare_algorithms" /\ \A name \in StrategyNames : GeneratesOrder(name)) =>
        /\ selection.status = "ok"
        /\ ComparedNames = StrategyNames
        /\ Len(selection.comparisons) = Cardinality(StrategyNames)

\* --------------------------------------------------- BLW's choice of edges
\* the relationship_type of the relationship an edge of the graph carries
EdgeType(e) == relationships[graph.attr[e]].relationship_type

\* the edges of the graph that lie on a simple cycle through two or more
\* components
CycleEdgesOf(G) ==
    UNION { CycleEdges(cycle) : cycle \in { c \in simple_cycles(G) : Len(c) > 1 } }

\* C13: BLW association priority.  When BLW runs on a graph with an
\* association-typed edge on a cycle, it returns a result that stubs an
\* association-typed edge, and it stubs an inheritance or aggregation edge
\* only if removing the association-typed edges leaves a cycle.
C13_AssociationPriority ==
    (/\ result.algorithm = "BLW"
     /\ WellFormed
     /\ ~HasSelfLoop
     /\ \E e \in CycleEdgesOf(graph) : EdgeType(e) = "association") =>
        /\ Returned
        /\ \E e \in StubbedEdges(result.stubs) : EdgeType(e) = "association"
        /\ (\E e \in StubbedEdges(result.stubs) : EdgeType(e) # "association") =>
              ~is_directed_acyclic_graph(
                  remove_edges(graph, { e \in EdgeSet(graph) : EdgeType(e) = "association" }))

\* ------------------------------------------------- repeated strategy runs
\* what a strategy returns or raises when it runs once, alone, on the graph
RunAlone(name) ==
    { outcome.result : outcome \in AlgorithmGenerateOrder(Generator, name) }

StubPairs(stubs) ==
    UNION { { <<c, d>> : d \in stubs[c] } : c \in DOMAIN stubs }

\* C15: in every returned result, total_stub_count is the sum of the sizes
\* of the stub sets, components_with_stubs the number of components with a
\* non-empty stub set, and average_stubs_per_component the total divided by
\* the number of components of the graph, 0 when the graph has none.
C15_Metrics ==
    Returned =>
        LET n == Len(components)
            total == Cardinality(StubPairs(result.stubs))
            average == result.metrics.average_stubs_per_component
        IN  /\ result.metrics.total_stub_count = total
            /\ result.metrics.components_with_stubs =
                  Cardinality({ c \in DOMAIN result.stubs : result.stubs[c] # {} })
            /\ IF n = 0 THEN average[1] = 0
               ELSE average[1] * n = total * average[2]
            /\ average[2] > 0

C15_Witness ==
    /\ Returned
    /\ Len(components) >= 3
    /\ result.metrics.total_stub_count >= 3
    /\ result.metrics.components_with_stubs >= 2
    /\ result.metrics.total_stub_count > result.metrics.components_with_stubs
    /\ result.metrics.total_stub_count # Len(components)

\* C16: after any sequence of add_component calls, no two registered
\* components have the same name: add_component of a name that is already
\* registered fails and leaves the graph as it was.
C16_NoDuplicateNames ==
    \A i \in DOMAIN components : \A j \in DOMAIN components :
        components[i].name = components[j].name => i = j

\* ------------------------------------------- MDTOG's feedback-edge loop
\* MDTOG _find_minimum_feedback_arc_set(subgraph) as a whole: whether it
\* raises, the feedback_edges it has collected and the subgraph as the loop
\* leaves it.  On a cyclic view the first statement of the first pass over
\* graph.edges(), graph.remove_edge(*edge), raises NetworkXError: no edge is
\* collected and the view still holds every edge.
find_minimum_feedback_arc_set(subgraph_view) ==
    [ raised |-> FindMinimumFeedbackArcSetRaises(subgraph_view),
      feedback_edges |-> << >>,
      graph |-> subgraph_view ]

\* the SCCs of more than one component that _break_cycles_and_order hands to
\* _find_minimum_feedback_arc_set, each as graph.subgraph(scc)
FeedbackSubgraphs ==
    LET weighted_graph == create_weighted_graph(Generator)
    IN  { subgraph(weighted_graph, scc) :
            scc \in { s \in strongly_connected_components(weighted_graph) :
                        Cardinality(s) > 1 } }

\* C17: MDTOG's greedy feedback-edge loop terminates for every SCC of more
\* than one component, a single simple cycle included: it ends without
\* raising and leaves the SCC's subgraph acyclic, and generate_order goes on
\* past it.
C17_FeedbackLoopTerminates ==
    (result.algorithm = "MDTOG" /\ WellFormed) =>
        \A view \in FeedbackSubgraphs :
            LET loop == find_minimum_feedback_arc_set(view)
            IN  /\ ~loop.raised
                /\ is_directed_acyclic_graph(loop.graph)
                /\ result.status # "NetworkXError"

\* the number of simple cycles left when the edge is removed
CyclesLeft(G, e) == Cardinality(simple_cycles(remove_edge(G, e[1], e[2])))

\* every edge of the sequence, removed in turn, leaves the fewest simple
\* cycles behind that the removal of one edge can leave
RECURSIVE GreedyRemovals(_, _)
GreedyRemovals(G, edges) ==
    IF edges = << >> THEN TRUE
    ELSE LET e == Head(edges)
         IN  /\ e \in EdgeSet(G)
             /\ \A f \in EdgeSet(G) : CyclesLeft(G, e) <= CyclesLeft(G, f)
             /\ GreedyRemovals(remove_edge(G, e[1], e[2]), Tail(edges))

\* C18: in each iteration of MDTOG's cycle breaking on an SCC of more than
\* one component an edge is removed, and it is an edge whose removal leaves
\* the fewest of the remaining simple cycles of the SCC's subgraph.
C18_RemovesMostCycles ==
    (result.algorithm = "MDTOG" /\ WellFormed) =>
        \A view \in FeedbackSubgraphs :
            LET loop == find_minimum_feedback_arc_set(view)
            IN  /\ loop.feedback_edges # << >>
                /\ GreedyRemovals(view, loop.feedback_edges)

\* --------------------------------------------------------- MDTOG's levels
\* the largest level among the components of a non-empty set
MaxLevel(levels, S) ==
    CHOOSE l \in { levels[p] : p \in S } : \A p \in S : levels[p] <= l

\* the level the rule gives a component from the levels of the predecessors
\* in preds: one more than their maximum, 0 when there are none
LevelFrom(levels, preds) ==
    IF preds = {} THEN 0 ELSE MaxLevel(levels, preds) + 1

\* C19: in an MDTOG result, the level of every component is 1 plus the
\* maximum level among all of its predecessors in the weighted graph, and a
\* component without predecessors has level 0.
C19_LevelsFromAllPredecessors ==
    (Returned /\ result.algorithm = "MDTOG") =>
        LET weighted_graph == create_weighted_graph(Generator)
            levels == result.level_assignments
        IN  /\ ComponentIdSet(components) \subseteq DOMAIN levels
            /\ \A c \in DOMAIN levels :
                  /\ predecessors(weighted_graph, c) \subseteq DOMAIN levels
                  /\ levels[c] = LevelFrom(levels, predecessors(weighted_graph, c))

\* C19, amended: in an MDTOG result, the level of every component is 1 plus
\* the maximum level among its predecessors in the weighted graph that come
\* before it in the order, and a component with no such predecessor has
\* level 0.
C19_LevelsFromEarlierPredecessors ==
    (Returned /\ result.algorithm = "MDTOG") =>
        LET weighted_graph == create_weighted_graph(Generator)
            levels == result.level_assignments
        IN  /\ ComponentIdSet(components) \subseteq DOMAIN levels
            /\ \A c \in DOMAIN levels :
                  LET earlier == { p \in predecessors(weighted_graph, c) :
                                     Earlier(result.order, p, c) }
                  IN  /\ earlier \subseteq DOMAIN levels
                      /\ levels[c] = LevelFrom(levels, earlier)

C19_Witness ==
    /\ Returned
    /\ result.algorithm = "MDTOG"
    /\ Len(components) >= 3
    /\ \E c \in DOMAIN result.level_assignments :
          /\ <<c, c>> \in EdgeSet(graph)
          /\ result.level_assignments[c] >= 1
    /\ \E c \in DOMAIN result.level_assignments, d \in DOMAIN result.level_assignments :
          c # d /\ result.level_assignments[c] = result.level_assignments[d]

\* ------------------------------------------ Tai-Daniels' cycle breaking
\* the component names in use, in the order of Python's string comparison
NamesInOrder ==
    << "A", "B", "Component0", "Component1", "Component2", "Component3",
       "Component4", "Component5", "Component6" >>

NameRank(name) == IndexOf(NamesInOrder, name)

\* the sum of the weights (type weight x strength) of the dependencies of a
\* component that _assign_levels still waits for
UnresolvedWeight(self, c, assigned) ==
    LET deps == UnassignedDeps(self, c, assigned)
    IN  SumOver(deps, [ d \in deps |-> weighted_deps(self, c, d) ])

\* C20: Tai-Daniels cycle breaking.  When no unleveled component has all its
\* weighted dependencies leveled, the component leveled next is the unleveled
\* component with the minimal sum of weights over its unresolved
\* dependencies and, among those, the smallest name, whatever the order in
\* which the components were added.
C20_CycleBreakByWeightThenName ==
    (Returned /\ result.algorithm = "Tai-Daniels" /\ WellFormed) =>
        LET levels == result.level_assignments
            ids == ComponentIdSet(components)
            name(c) == ComponentOf(components, c).name
        IN  \A k \in { levels[c] : c \in DOMAIN levels } :
              LET assigned == { c \in DOMAIN levels : levels[c] < k }
                  open == ids \ assigned
                  weight(c) == UnresolvedWeight(Generator, c, assigned)
              IN  (\A c \in open : UnassignedDeps(Generator, c, assigned) # {}) =>
                     \A c \in { x \in open : levels[x] = k } : \A d \in open :
                         \/ weight(c) < weight(d)
                         \/ /\ weight(c) = weight(d)
                            /\ NameRank(name(c)) <= NameRank(name(d))

\* ---------------------------------------------- TJJM's choice of edges
\* the SCCs of the graph with more than one component
NonTrivialSccs ==
    { scc \in strongly_connected_components(graph) : Cardinality(scc) > 1 }

\* the number of simple cycles of G through the edge
CyclesThrough(G, e) ==
    Cardinality({ cycle \in simple_cycles(G) : e \in CycleEdges(cycle) })

\* the number of nodes of G reachable from the target of the edge
ReachableFromTarget(G, e) == Cardinality(descendants(G, e[2]))

\* the edge has the most simple cycles of G through it and, among the edges
\* with as many, the fewest nodes reachable from its target
MostCyclesLeastImpact(G, e) ==
    /\ e \in EdgeSet(G)
    /\ CyclesThrough(G, e) > 0
    /\ \A f \in EdgeSet(G) :
          \/ CyclesThrough(G, f) < CyclesThrough(G, e)
          \/ /\ CyclesThrough(G, f) = CyclesThrough(G, e)
             /\ ReachableFromTarget(G, e) <= ReachableFromTarget(G, f)

\* the edges of E can be removed from G one by one, each the edge of most
\* cycles and least impact in the graph that is left, until G is acyclic
RECURSIVE RemovedByRule(_, _)
RemovedByRule(G, E) ==
    IF is_directed_acyclic_graph(G) THEN E = {}
    ELSE \E e \in E :
            /\ MostCyclesLeastImpact(G, e)
            /\ RemovedByRule(remove_edge(G, e[1], e[2]), E \ {e})

\* C21: TJJM edge selection.  In a TJJM result on a graph with an SCC of
\* more than one component, the edges removed from each such SCC are removed
\* one per iteration, each the edge with the maximal number of simple cycles
\* of the current SCC subgraph through it and, among those, the minimal
\* number of components reachable from its target.
C21_MostCyclesLeastImpact ==
    (Returned /\ result.algorithm = "TJJM") =>
        \A scc \in NonTrivialSccs :
            RemovedByRule(subgraph(graph, scc),
                          { e \in StubbedEdges(result.stubs) : e[1] \in scc /\ e[2] \in scc })

C21_Witness ==
    /\ Returned
    /\ result.algorithm = "TJJM"
    /\ Cardinality(StubbedEdges(result.stubs)) >= 2
    /\ \E scc \in NonTrivialSccs :
          \E e \in EdgeSet(subgraph(graph, scc)), f \in EdgeSet(subgraph(graph, scc)) :
              CyclesThrough(subgraph(graph, scc), e) > CyclesThrough(subgraph(graph, scc), f)

\* C22: for every graph whose relationships join registered components, a
\* component with a relationship to itself included, TJJM and BLW reach an
\* acyclic working graph: the topological-order step never raises
\* ValueError ("Graph contains cycles" / "Modified graph still contains
\* cycles").
C22_WorkingGraphAcyclic ==
    (result.algorithm \in { "TJJM", "BLW" } /\ WellFormed) =>
        result.status # "ValueError"

\* the edges of the graph that lie on a simple cycle, a relationship of a
\* component to itself included
OnCycle(G) == UNION { CycleEdges(cycle) : cycle \in simple_cycles(G) }

\* C23: in a TJJM result on a graph with an SCC of more than one component,
\* every stub of c is the target of an edge from c with both ends in one
\* such SCC, and the stubs of c are all the edges from c that the order
\* does not respect (the removed edges); so a component that is an SCC on
\* its own has no stubs, and every dependency edge on no cycle has its
\* target ordered before its source.
C23_StubsAreRemovedEdges ==
    (Returned /\ result.algorithm = "TJJM" /\ NonTrivialSccs # {}) =>
        /\ DOMAIN result.stubs = ComponentIdSet(components)
        /\ \A p \in StubPairs(result.stubs) :
              /\ p \in EdgeSet(graph)
              /\ \E scc \in NonTrivialSccs : p[1] \in scc /\ p[2] \in scc
        /\ \A e \in EdgeSet(graph) \ StubPairs(result.stubs) :
              Earlier(result.order, e[2], e[1])
        /\ \A c \in ComponentIdSet(components) :
              {c} \in strongly_connected_components(graph) => result.stubs[c] = {}
        /\ \A e \in EdgeSet(graph) \ OnCycle(graph) :
              Earlier(result.order, e[2], e[1])

C23_Witness ==
    /\ Returned
    /\ result.algorithm = "TJJM"
    /\ NonTrivialSccs # {}
    /\ StubPairs(result.stubs) # {}
    /\ \E c \in ComponentIdSet(components) : {c} \in strongly_connected_components(graph)
    /\ EdgeSet(graph) \ OnCycle(graph) # {}

\* ------------------------------------------------------ BLW's edge score
\* BLW _calculate_stub_complexity of the edge, times 20: the target's
\* complexity_score (in tenths) times the type multiplier (in halves)
BLWStubComplexity(e) ==
    ComponentOf(components, e[2]).complexity_score *
        (CASE EdgeType(e) = "inheritance" -> 4
           [] EdgeType(e) = "aggregation" -> 3
           [] OTHER -> 2)

\* the candidates of BLW _select_edge_to_break in G: the association-typed
\* cycle edges if there are any, else all cycle edges
BLWCandidates(G) ==
    LET association_edges == { e \in OnCycle(G) : EdgeType(e) = "association" }
    IN  IF association_edges # {} THEN association_edges ELSE OnCycle(G)

\* score(e) >= score(f) for score = cycle_count / (complexity + 1), and
\* the lower complexity when the scores are equal
BLWPreferred(G, e, f) ==
    LET left == CyclesThrough(G, e) * (BLWStubComplexity(f) + 20)
        right == CyclesThrough(G, f) * (BLWStubComplexity(e) + 20)
    IN  \/ left > right
        \/ left = right /\ BLWStubComplexity(e) <= BLWStubComplexity(f)

\* C24: BLW edge scoring.  When BLW runs on a graph with an SCC of more than
\* one component, it returns a result in which, for each such SCC, a stubbed
\* edge of the SCC is the candidate with the maximal
\* cycle-participation-count / (stub complexity + 1) in the SCC subgraph
\* and, among the candidates with that score, the lowest stub complexity.
C24_BestScore ==
    (result.algorithm = "BLW" /\ WellFormed /\ ~HasSelfLoop /\ NonTrivialSccs # {}) =>
        /\ Returned
        /\ \A scc \in NonTrivialSccs :
              LET G == subgraph(graph, scc)
              IN  \E e \in StubbedEdges(result.stubs) \cap BLWCandidates(G) :
                      \A f \in BLWCandidates(G) : BLWPreferred(G, e, f)

\* ------------------------------------------------ the selector's winner
\* the weighted score of a comparison entry of the latest selection, with
\* the weight profile of the graph's density
SelectionScore(comparison) ==
    weighted_score(calculate_weights(dependency_graph), comparison)

\* C25: select_best_algorithm returns the name of a compared strategy whose
\* weighted score is maximal (no compared strategy has a strictly higher
\* score), and the returned result is a generate_order result of that
\* strategy on the graph.
C25_WinnerHasMaximalScore ==
    (selection.call = "select_best_algorithm" /\ selection.status = "ok") =>
        /\ \E winner \in Range(selection.comparisons) :
              /\ winner.algorithm_name = selection.best_algorithm
              /\ \A other \in Range(selection.comparisons) :
                    ~RatLess(SelectionScore(winner), SelectionScore(other))
        /\ selection.result.algorithm = selection.best_algorithm
        /\ selection.result \in RunAlone(selection.best_algorithm)

C25_Witness ==
    /\ selection.call = "select_best_algorithm"
    /\ selection.status = "ok"
    /\ Len(selection.result.order) >= 3
    /\ \E winner \in Range(selection.comparisons), other \in Range(selection.comparisons) :
          /\ winner.algorithm_name = selection.best_algorithm
          /\ RatLess(SelectionScore(other), SelectionScore(winner))

\* ------------------------------------------------------------------- C26
\* The stubs calculate_required_stubs computes for the reverse of the
\* returned order (tests/strategy/test_order/test_tjjm.py,
\* test_stub_minimization)
ReversedStubs == calculate_required_stubs(Generator, Reverse(result.order))

\* C26: the total number of stubs in a TJJM result is never greater than the
\* total number of stubs calculate_required_stubs computes for the reverse
\* of the returned order.
C26_NoMoreStubsThanReversed ==
    (Returned /\ result.algorithm = "TJJM") =>
        /\ ReversedStubs.ok
        /\ TotalStubsOf(result.stubs) <= TotalStubsOf(ReversedStubs.stubs)

\* a TJJM result that records a stub and whose reversed order needs more
C26_Witness ==
    /\ Returned /\ result.algorithm = "TJJM"
    /\ Cyclic
    /\ TotalStubsOf(result.stubs) > 0
    /\ ReversedStubs.ok
    /\ TotalStubsOf(result.stubs) < TotalStubsOf(ReversedStubs.stubs)

\* ------------------------------------------------------------------- C27
\* the components whose complexity_score no other component exceeds
HighestComplexity ==
    { c \in ComponentIdSet(components) :
        \A d \in ComponentIdSet(components) :
           components[d].complexity_score <= components[c].complexity_score }

\* the components have pairwise distinct complexity scores
DistinctComplexity ==
    \A c, d \in ComponentIdSet(components) :
       components[c].complexity_score = components[d].complexity_score => c = d

\* C27: TJJM takes component complexity into account when breaking a cycle:
\* on a single cycle of association edges whose components have distinct
\* complexity scores, the component with the highest complexity score is
\* never recorded as a stub in the result.
C27_HighestComplexityNotStubbed ==
    (result.algorithm = "TJJM" /\ SimpleCycleGraph /\ DistinctComplexity) =>
        /\ Returned
        /\ \A c \in DOMAIN result.stubs : result.stubs[c] \cap HighestComplexity = {}

\* ------------------------------------------------------------------- C28
\* the levels _assign_levels builds on the current graph, one per iteration
\* of its loop
TaiDanielsLevels == TaiDanielsAssignLevels(Generator, << >>, {})

\* C28: Tai-Daniels level assignment terminates: every iteration of the
\* leveling loop assigns at least one previously unleveled component, the
\* loop ends after at most |components| iterations, every component is in
\* exactly one level, and the used levels are 0..k-1 with no empty level.
C28_LevelingTerminates ==
    LET levels == TaiDanielsLevels
        ids == ComponentIdSet(components)
    IN  /\ Len(levels) <= Len(components)
        /\ \A k \in DOMAIN levels :
              /\ levels[k] # << >>
              /\ \A i, j \in DOMAIN levels[k] : levels[k][i] = levels[k][j] => i = j
              /\ \A j \in 1..(k - 1) : Range(levels[k]) \cap Range(levels[j]) = {}
        /\ \A c \in ids : Cardinality({ k \in DOMAIN levels : c \in Range(levels[k]) }) = 1
        /\ \A k \in DOMAIN levels : Range(levels[k]) \subseteq ids
        /\ (Returned /\ result.algorithm = "Tai-Daniels") =>
              /\ DOMAIN result.level_assignments = ids
              /\ { result.level_assignments[c] : c \in ids } = 0..(Len(levels) - 1)
              /\ \A c \in ids : c \in Range(levels[result.level_assignments[c] + 1])

\* Tai-Daniels returned on a cyclic graph: a cycle was broken, more than one
\* level was used and one level holds two components
C28_Witness ==
    /\ Returned /\ result.algorithm = "Tai-Daniels"
    /\ Cyclic
    /\ Len(TaiDanielsLevels) >= 2
    /\ \E k \in DOMAIN TaiDanielsLevels : Len(TaiDanielsLevels[k]) >= 2

\* ------------------------------------------------------------------- C29
\* the ids of the relationships get_relationships() returns
RegisteredRelationships == { relationships[i].id : i \in DOMAIN relationships }

\* the ids of the relationships get_dependencies(c) returns over all
\* registered components c: the "relationship" attribute of every edge that
\* leaves c
DependencyRelationships ==
    UNION { { graph.attr[<< c, target >>] : target \in get_dependencies(dependency_graph, c) } :
            c \in ComponentIdSet(components) }

\* C29: the relationship registry and the adjacency structure describe the
\* same edges: after any sequence of add_component / add_relationship calls
\* between registered components (two relationships with the same source
\* and target included) the relationships returned by get_relationships()
\* are exactly those returned by get_dependencies(c) over all components c.
C29_RegistryMatchesAdjacency ==
    WellFormed => RegisteredRelationships = DependencyRelationships

\* ------------------------------------------------------------------- C30
\* the graph has grown since the held generator was constructed
GrownSinceConstruction ==
    /\ generator.held
    /\ \/ Len(components) > Len(generator.components)
       \/ Len(relationships) > Len(generator.relationships)

\* an order and stubs that fit the graph as it is: the order is a
\* permutation of the registered components and every stub is in the order
ConsistentResult(res) ==
    /\ IsPermutation(res.order, components)
    /\ \A c \in DOMAIN res.stubs : res.stubs[c] \subseteq Range(res.order)

\* C30: a generator (or Selector) constructed before further add_component /
\* add_relationship calls still produces a consistent result: the order
\* generate_order returns after such additions is a permutation of the
\* graph's components at the time of the call, and every stub in the result
\* is a component that appears in that order.
C30_HeldGeneratorConsistent ==
    GrownSinceConstruction =>
        /\ Returned => ConsistentResult(result)
        /\ (selection.call = "select_best_algorithm" /\ selection.status = "ok") =>
              ConsistentResult(selection.result)

====
